---- MODULE Spec2Model ----
(***************************************************************************)
(* A model of the Freeze autodiff substrate:                               *)
(*   src/src/graph/node.rs   NodeId, Node, NodeRef, RootNode, node_init!   *)
(*   src/src/tensor/shape.rs Shape::num_elements, Shape::index             *)
(*   src/src/tensor/data.rs  Data::new, Data::random, From<[P; A]>         *)
(*                                                                         *)
(* Three specifications share the variables:                               *)
(*   Spec       the computation-graph nodes behind shared handles          *)
(*   SpecShape  the Shape operations on bounded inputs                     *)
(*   SpecData   the Data construction paths on bounded inputs              *)
(***************************************************************************)
EXTENDS Integers, Sequences, FiniteSets, Bags, TLC

VARIABLES
    cells,      \* the RefCell<RootNode<Out>> allocations: [node, borrow]
    handles,    \* the live NodeRef handles (Rc clones): handle -> cell
    guards,     \* the live Ref / RefMut guards, a bag of [h, mut]
    origin,     \* history: the node_init! call each handle descends from
    created,    \* history: per node_init! call, the id and value it was built with
    contribs,   \* history: per node_init! call, the bag of contributions update_grad got
    lastUpdate, \* history: per node_init! call, the handle of the last update_grad (0: none)
    lastGrad,   \* history: per node_init! call, what grad() last returned since the last update
    ev,         \* the last call made: [op, arg, val], its argument and what it returned
    panicked,   \* the process has panicked
    shape,      \* the Shape the Shape operations are called on
    indexed,    \* what Shape::index last returned
    overflowChecks, \* the build profile: overflow-checks on (debug) or off (release)
    data        \* what the last Data construction returned

vars == <<cells, handles, guards, origin, created, contribs, lastUpdate, lastGrad, ev, panicked,
          shape, indexed, overflowChecks, data>>

nodeVars == <<cells, handles, guards, origin, created, contribs, lastUpdate, lastGrad>>

tensorVars == <<shape, indexed, overflowChecks, data>>

(***************************************************************************)
(* Bounds of the model.                                                    *)
(***************************************************************************)
MaxNodes == 2       \* node_init!(root ..) calls
MaxHandles == 2     \* NodeRef handles alive
MaxGuards == 1      \* Ref / RefMut guards alive at once
MaxUpdates == 2     \* update_grad calls

\* Option<T>: None, Some(v)
None == << >>

Some(v) == <<v>>

NoEvent == [op |-> "none", arg |-> 0, val |-> None]

(***************************************************************************)
(* The payload type Out, instantiated with integer vectors.  zeros and Add *)
(* are the capabilities RootNode requires of Out (node.rs:40-42, :69).     *)
(***************************************************************************)
zeros(v) == [i \in 1..Len(v) |-> 0]

Add(a, b) == [i \in 1..Len(a) |-> a[i] + b[i]]

\* the values nodes are built with, and the entries of the contributions
NodeValues == { <<1, 2, 3>> }

GradEntries == { 1, 2 }

Grads(v) == { [i \in 1..Len(v) |-> k] : k \in GradEntries }

(***************************************************************************)
(* NodeId::new: nanoid!() draws a random string; nothing compares it with  *)
(* the ids already handed out.  IdSpace stands for the strings it can      *)
(* return.                                                                 *)
(***************************************************************************)
IdSpace == { "V1StGXR8_Z5jdHi6B-myT", "3IBBoOd_b1YSlnAwT-k2x" }

NodeId_new == IdSpace

(***************************************************************************)
(* RootNode                                                                *)
(***************************************************************************)
RootNode_new(value, nid) == [id |-> nid, value |-> value, grad |-> None]

RootNode_id(self) == self.id

\* grad() that takes the stored gradient out of the node (Option::take)
RootNode_grad_take(self) ==
    LET grad_self == IF self.grad # None THEN self.grad[1] ELSE zeros(self.value)
    IN  [node |-> [self EXCEPT !.grad = None], ret |-> grad_self]

\* grad() that materializes the zero again on every call
RootNode_grad_reset(self) ==
    [node |-> [self EXCEPT !.grad = Some(zeros(self.value))], ret |-> zeros(self.value)]

\* grad() that returns the gradient and stores nothing in the node
RootNode_grad_peek(self) ==
    LET grad_self == IF self.grad # None THEN self.grad[1] ELSE zeros(self.value)
    IN  [node |-> self, ret |-> grad_self]

\* fn grad(&mut self) -> Out: the node after the call, and the value returned
RootNode_grad(self) ==
    LET grad_self == IF self.grad # None THEN self.grad[1] ELSE zeros(self.value)
    IN  [node |-> [self EXCEPT !.grad = Some(grad_self)], ret |-> grad_self]

\* value() that hands out the zero of the value
RootNode_value_zeros(self) == zeros(self.value)

RootNode_value(self) == self.value

\* update_grad that stores the contribution instead of the sum
RootNode_update_grad_overwrite(self, grad) ==
    [RootNode_grad(self).node EXCEPT !.grad = Some(grad)]

\* fn update_grad(&mut self, grad: Out): the node after the call
RootNode_update_grad(self, grad) ==
    LET r == RootNode_grad(self)
    IN  [r.node EXCEPT !.grad = Some(Add(r.ret, grad))]

(***************************************************************************)
(* NodeRef<T> = Rc<RefCell<dyn Node<T>>>.  A cell's borrow flag is         *)
(* RefCell's: 0 unused, n > 0 shared borrows, -1 one exclusive borrow.     *)
(***************************************************************************)
RefCell_new(node) == [node |-> node, borrow |-> 0]

\* RefCell::borrow succeeds unless the cell is exclusively borrowed
RefCell_can_borrow(cell) == cell.borrow >= 0

\* RefCell::borrow_mut succeeds only on an unused cell
RefCell_can_borrow_mut(cell) == cell.borrow = 0

Live == ~panicked

HandleIds == 1..Len(handles)

GuardSet == BagToSet(guards)

RECURSIVE SumCard(_)
SumCard(bs) == IF bs = << >> THEN 0 ELSE BagCardinality(Head(bs)) + SumCard(Tail(bs))

\* the update_grad calls made so far
Updates == SumCard(contribs)

\* node_init!(root $out): RootNode::new($out) wrapped in Rc::new(RefCell::new(..))
node_init_root(out) ==
    /\ Live
    /\ Len(created) < MaxNodes
    /\ Len(handles) < MaxHandles
    /\ \E nid \in NodeId_new :
          /\ cells' = Append(cells, RefCell_new(RootNode_new(out, nid)))
          /\ created' = Append(created, [id |-> nid, value |-> out])
    /\ handles' = Append(handles, Len(cells) + 1)
    /\ origin' = Append(origin, Len(created) + 1)
    /\ contribs' = Append(contribs, EmptyBag)
    /\ lastUpdate' = Append(lastUpdate, 0)
    /\ lastGrad' = Append(lastGrad, None)
    /\ ev' = [op |-> "node_init", arg |-> Len(handles) + 1, val |-> None]
    /\ UNCHANGED <<guards, panicked>>

\* a clone that copies the node into an allocation of its own
Rc_clone_deep(h) ==
    /\ Live
    /\ Len(handles) < MaxHandles
    /\ cells' = Append(cells, RefCell_new(cells[handles[h]].node))
    /\ handles' = Append(handles, Len(cells) + 1)
    /\ origin' = Append(origin, origin[h])
    /\ ev' = [op |-> "clone", arg |-> h, val |-> None]
    /\ UNCHANGED <<guards, created, contribs, lastUpdate, lastGrad, panicked>>

\* Rc::clone: one more handle to the same allocation
Rc_clone(h) ==
    /\ Live
    /\ Len(handles) < MaxHandles
    /\ handles' = Append(handles, handles[h])
    /\ origin' = Append(origin, origin[h])
    /\ ev' = [op |-> "clone", arg |-> h, val |-> None]
    /\ UNCHANGED <<cells, guards, created, contribs, lastUpdate, lastGrad, panicked>>

\* handle.borrow(): a Ref guard, or a panic (BorrowError)
RefCell_borrow(h) ==
    LET c == handles[h] IN
    /\ Live
    /\ IF RefCell_can_borrow(cells[c])
       THEN /\ BagCardinality(guards) < MaxGuards
            /\ cells' = [cells EXCEPT ![c].borrow = @ + 1]
            /\ guards' = guards (+) SetToBag({[h |-> h, mut |-> FALSE]})
            /\ ev' = [op |-> "borrow", arg |-> h, val |-> Some("Ref")]
            /\ UNCHANGED panicked
       ELSE /\ panicked' = TRUE
            /\ ev' = [op |-> "borrow", arg |-> h, val |-> Some("BorrowError")]
            /\ UNCHANGED <<cells, guards>>
    /\ UNCHANGED <<handles, origin, created, contribs, lastUpdate, lastGrad>>

\* a borrow_mut that hands out the RefMut without looking at the borrow flag
RefCell_borrow_mut_unchecked(h) ==
    /\ Live
    /\ cells' = [cells EXCEPT ![handles[h]].borrow = -1]
    /\ guards' = guards (+) SetToBag({[h |-> h, mut |-> TRUE]})
    /\ ev' = [op |-> "borrow_mut", arg |-> h, val |-> Some("RefMut")]
    /\ UNCHANGED <<handles, origin, created, contribs, lastUpdate, lastGrad, panicked>>

\* handle.borrow_mut(): a RefMut guard, or a panic (BorrowMutError)
RefCell_borrow_mut(h) ==
    LET c == handles[h] IN
    /\ Live
    /\ IF RefCell_can_borrow_mut(cells[c])
       THEN /\ BagCardinality(guards) < MaxGuards
            /\ cells' = [cells EXCEPT ![c].borrow = -1]
            /\ guards' = guards (+) SetToBag({[h |-> h, mut |-> TRUE]})
            /\ ev' = [op |-> "borrow_mut", arg |-> h, val |-> Some("RefMut")]
            /\ UNCHANGED panicked
       ELSE /\ panicked' = TRUE
            /\ ev' = [op |-> "borrow_mut", arg |-> h, val |-> Some("BorrowMutError")]
            /\ UNCHANGED <<cells, guards>>
    /\ UNCHANGED <<handles, origin, created, contribs, lastUpdate, lastGrad>>

\* drop of a Ref / RefMut guard
Guard_drop(g) ==
    LET c == handles[g.h] IN
    /\ Live
    /\ cells' = [cells EXCEPT ![c].borrow = IF g.mut THEN 0 ELSE @ - 1]
    /\ guards' = guards (-) SetToBag({g})
    /\ ev' = [op |-> "drop", arg |-> g.h, val |-> None]
    /\ UNCHANGED <<handles, origin, created, contribs, lastUpdate, lastGrad, panicked>>

\* guard.id(): &self, through a Ref or a RefMut
Node_id(g) ==
    LET c == handles[g.h] IN
    /\ Live
    /\ ev' = [op |-> "id", arg |-> g.h, val |-> Some(RootNode_id(cells[c].node))]
    /\ UNCHANGED <<nodeVars, panicked>>

\* guard.value(): &self, through a Ref or a RefMut
Node_value(g) ==
    LET c == handles[g.h] IN
    /\ Live
    /\ ev' = [op |-> "value", arg |-> g.h, val |-> Some(RootNode_value(cells[c].node))]
    /\ UNCHANGED <<nodeVars, panicked>>

\* guard.grad(): &mut self, through a RefMut only
Node_grad(g) ==
    LET c == handles[g.h]
        r == RootNode_grad(cells[c].node)
    IN
    /\ Live
    /\ g.mut
    /\ cells' = [cells EXCEPT ![c].node = r.node]
    /\ lastGrad' = [lastGrad EXCEPT ![origin[g.h]] = Some(r.ret)]
    /\ ev' = [op |-> "grad", arg |-> g.h, val |-> Some(r.ret)]
    /\ UNCHANGED <<handles, guards, origin, created, contribs, lastUpdate, panicked>>

\* guard.update_grad(grad): &mut self, through a RefMut only
Node_update_grad(g, grad) ==
    LET c == handles[g.h]
        o == origin[g.h]
    IN
    /\ Live
    /\ g.mut
    /\ Updates < MaxUpdates
    /\ cells' = [cells EXCEPT ![c].node = RootNode_update_grad(@, grad)]
    /\ contribs' = [contribs EXCEPT ![o] = @ (+) SetToBag({grad})]
    /\ lastUpdate' = [lastUpdate EXCEPT ![o] = g.h]
    /\ lastGrad' = [lastGrad EXCEPT ![o] = None]
    /\ ev' = [op |-> "update_grad", arg |-> g.h, val |-> Some(grad)]
    /\ UNCHANGED <<handles, guards, origin, created, panicked>>

(***************************************************************************)
(* Shape<D> (tensor/shape.rs).  usize is modelled UsizeBits wide: a        *)
(* product that reaches 2^UsizeBits overflows, which panics in a build     *)
(* with overflow checks (debug) and wraps in one without (release).        *)
(***************************************************************************)
MaxRank == 2        \* largest rank D of a Shape
MaxExtent == 2      \* largest extent of an axis of an input Shape
UsizeBits == 2      \* width of usize
MaxBuf == 2         \* longest buffer handed to Data::new

Usize == 2 ^ UsizeBits

Ok(v) == [kind |-> "ok", val |-> v]

Panic(msg) == [kind |-> "panic", val |-> msg]

Shape_new(dims) == [dims |-> dims]

Extents == 0..MaxExtent

Shapes == { Shape_new(d) : d \in UNION { [1..n -> Extents] : n \in 0..MaxRank } }

\* Range<usize>: 0..0 (empty), 1..0 (reversed), 0..2, and 0..MaxExtent+1 and
\* 1..MaxExtent+1, which reach past every extent
Ranges == { [start |-> s, end |-> e] : s \in {0, 1}, e \in {0, MaxExtent + 1} }
             \cup { [start |-> 0, end |-> 2] }

RangeLists == UNION { [1..n -> Ranges] : n \in 0..(MaxRank + 1) }

\* Range<usize>::count(): the number of elements the range iterates over
Range_count(r) == IF r.start < r.end THEN r.end - r.start ELSE 0

RECURSIVE num_elements_from(_, _, _, _)
\* the loop of num_elements from axis i on, num_elements being acc so far
num_elements_from(dims, i, acc, checks) ==
    IF i > Len(dims) THEN Ok(acc)
    ELSE LET p == acc * dims[i] IN
         IF p >= Usize
         THEN IF checks THEN Panic("attempt to multiply with overflow")
              ELSE num_elements_from(dims, i + 1, p % Usize, checks)
         ELSE num_elements_from(dims, i + 1, p, checks)

\* fn num_elements(&self) -> usize, in a build with or without overflow checks
Shape_num_elements(self, checks) == num_elements_from(self.dims, 1, 1, checks)

\* index that cuts an over-long range list down to the rank instead of failing
Shape_index_truncating(self, indexes) ==
    Ok(Shape_new([i \in 1..Len(self.dims) |->
                    IF i <= Len(indexes) THEN Range_count(indexes[i]) ELSE self.dims[i]]))

\* index without its second loop: the axes not sliced stay at the 0 dims
\* starts with
Shape_index_no_trailing(self, indexes) ==
    LET D1 == Len(self.dims)
        D2 == Len(indexes)
    IN  IF D2 > D1 THEN Panic("Cant index that")
        ELSE Ok(Shape_new([i \in 1..D1 |->
                             IF i <= D2 THEN Range_count(indexes[i]) ELSE 0]))

\* index that cuts every range down to the extent of its axis
Shape_index_clamped(self, indexes) ==
    LET D1 == Len(self.dims)
        D2 == Len(indexes)
        Min(a, b) == IF a < b THEN a ELSE b
    IN  IF D2 > D1 THEN Panic("Cant index that")
        ELSE Ok(Shape_new([i \in 1..D1 |->
                             IF i <= D2
                             THEN Range_count([start |-> Min(indexes[i].start, self.dims[i]),
                                               end |-> Min(indexes[i].end, self.dims[i])])
                             ELSE self.dims[i]]))

\* fn index<const D2: usize>(&self, indexes: [Range<usize>; D2]) -> Self
Shape_index(self, indexes) ==
    LET D1 == Len(self.dims)
        D2 == Len(indexes)
    IN  IF D2 > D1 THEN Panic("Cant index that")
        ELSE Ok(Shape_new([i \in 1..D1 |->
                             IF i <= D2 THEN Range_count(indexes[i]) ELSE self.dims[i]]))

\* the call shape.index(indexes), made once on the Shape under test
Shape_index_call(indexes) ==
    LET r == Shape_index(shape, indexes) IN
    /\ Live
    /\ indexed = None
    /\ ev' = [op |-> "index", arg |-> indexes, val |-> r]
    /\ IF r.kind = "ok"
       THEN /\ indexed' = Some([shape |-> r.val, indexes |-> indexes])
            /\ UNCHANGED panicked
       ELSE /\ panicked' = TRUE
            /\ UNCHANGED indexed
    /\ UNCHANGED <<shape, overflowChecks, data, nodeVars>>

\* a call of num_elements() on the shape, or on the shape index returned
Shape_num_elements_call(target) ==
    LET s == IF target = "self" THEN shape ELSE indexed[1].shape
        r == Shape_num_elements(s, overflowChecks)
    IN
    /\ Live
    /\ target = "indexed" => indexed # None
    /\ ev' = [op |-> "num_elements", arg |-> target, val |-> r]
    /\ panicked' = (r.kind = "panic")
    /\ UNCHANGED <<shape, indexed, overflowChecks, data, nodeVars>>

(***************************************************************************)
(* Data<P, D> (tensor/data.rs)                                             *)
(***************************************************************************)
\* the element values P takes
Elems == { 0, 1 }

Buffers == UNION { [1..n -> Elems] : n \in 0..MaxBuf }

\* #[derive(new)]: Data::new(value, shape) stores both as given
Data_new(value, shape_) == [value |-> value, shape |-> shape_]

\* Data::random(shape): what it can return, the elements being drawn at random
Data_random(shape_, checks) ==
    LET num_elements == Shape_num_elements(shape_, checks) IN
    IF num_elements.kind = "panic" THEN { num_elements }
    ELSE { Ok(Data_new(v, shape_)) : v \in [1..num_elements.val -> Elems] }

\* From<[P; A]> for Data<P, 1>: the body of from is empty, no Data is built
Data_from(elems) == [kind |-> "unimplemented", val |-> "from has no body"]

\* one construction is made per run: Fresh holds until it has been made
Fresh == ev = NoEvent

Data_new_call(value, shape_) ==
    /\ Live
    /\ Fresh
    /\ data' = Some(Data_new(value, shape_))
    /\ ev' = [op |-> "Data::new", arg |-> <<value, shape_>>,
              val |-> Ok(Data_new(value, shape_))]
    /\ UNCHANGED <<shape, indexed, overflowChecks, panicked, nodeVars>>

Data_random_call(shape_) ==
    /\ Live
    /\ Fresh
    /\ \E r \in Data_random(shape_, overflowChecks) :
          /\ ev' = [op |-> "Data::random", arg |-> shape_, val |-> r]
          /\ data' = IF r.kind = "ok" THEN Some(r.val) ELSE data
          /\ panicked' = (r.kind = "panic")
    /\ UNCHANGED <<shape, indexed, overflowChecks, nodeVars>>

Data_from_call(elems) ==
    /\ Live
    /\ Fresh
    /\ ev' = [op |-> "Data::from", arg |-> elems, val |-> Data_from(elems)]
    /\ UNCHANGED <<shape, indexed, overflowChecks, data, panicked, nodeVars>>

NodeIdle ==
    /\ cells = << >>
    /\ handles = << >>
    /\ guards = EmptyBag
    /\ origin = << >>
    /\ created = << >>
    /\ contribs = << >>
    /\ lastUpdate = << >>
    /\ lastGrad = << >>

TensorIdle ==
    /\ shape = None
    /\ indexed = None
    /\ overflowChecks = FALSE
    /\ data = None

Init ==
    /\ NodeIdle
    /\ TensorIdle
    /\ ev = NoEvent
    /\ panicked = FALSE

Next ==
    \/ \E out \in NodeValues : node_init_root(out) /\ UNCHANGED tensorVars
    \/ \E h \in HandleIds : Rc_clone(h) /\ UNCHANGED tensorVars
    \/ \E h \in HandleIds : RefCell_borrow(h) /\ UNCHANGED tensorVars
    \/ \E h \in HandleIds : RefCell_borrow_mut(h) /\ UNCHANGED tensorVars
    \/ \E g \in GuardSet : Guard_drop(g) /\ UNCHANGED tensorVars
    \/ \E g \in GuardSet : Node_id(g) /\ UNCHANGED tensorVars
    \/ \E g \in GuardSet : Node_value(g) /\ UNCHANGED tensorVars
    \/ \E g \in GuardSet : Node_grad(g) /\ UNCHANGED tensorVars
    \/ \E g \in GuardSet :
          \E grad \in Grads(cells[handles[g.h]].node.value) :
             Node_update_grad(g, grad) /\ UNCHANGED tensorVars

Spec == Init /\ [][Next]_vars

(***************************************************************************)
(* The Shape operations, on every Shape and range list within the bounds,  *)
(* in either build.                                                        *)
(***************************************************************************)
InitShape ==
    /\ NodeIdle
    /\ shape \in Shapes
    /\ indexed = None
    /\ overflowChecks \in BOOLEAN
    /\ data = None
    /\ ev = NoEvent
    /\ panicked = FALSE

NextShape ==
    \/ \E indexes \in RangeLists : Shape_index_call(indexes)
    \/ \E target \in {"self", "indexed"} : Shape_num_elements_call(target)

SpecShape == InitShape /\ [][NextShape]_vars

(***************************************************************************)
(* The construction paths of Data, in either build.                        *)
(***************************************************************************)
InitData ==
    /\ NodeIdle
    /\ shape = None
    /\ indexed = None
    /\ overflowChecks \in BOOLEAN
    /\ data = None
    /\ ev = NoEvent
    /\ panicked = FALSE

NextData ==
    \/ \E value \in Buffers, shape_ \in Shapes : Data_new_call(value, shape_)
    \/ \E shape_ \in Shapes : Data_random_call(shape_)
    \/ \E elems \in Buffers : Data_from_call(elems)

SpecData == InitData /\ [][NextData]_vars

(***************************************************************************)
(* Properties of the graph nodes, checked under Spec.                      *)
(***************************************************************************)
RECURSIVE SumBag(_, _)
\* acc + the sum of the contributions in bag b, in no particular order
SumBag(acc, b) ==
    IF BagToSet(b) = {} THEN acc
    ELSE LET g == CHOOSE x \in BagToSet(b) : TRUE
         IN  SumBag(Add(acc, g), b (-) SetToBag({g}))

NodeIds == 1..Len(created)

\* zero(value) + g1 + ... + gn for the node built by the o-th node_init! call
Accumulated(o) == SumBag(zeros(created[o].value), contribs[o])

\* the gradient as grad() reads it: the stored one, or the zero while absent
GradRead(node) == IF node.grad # None THEN node.grad[1] ELSE zeros(node.value)

\* C1: whatever the order in which update_grad got its contributions, and with
\* grad() reads anywhere in between, grad() returns zero(value) plus the sum of
\* the contributions made so far: the result depends on the bag of
\* contributions only, so two nodes with the same value that got the same
\* contributions in different orders read the same gradient.
C1_GradIsSumOfContributions ==
    /\ ev.op = "grad" => ev.val = Some(Accumulated(origin[ev.arg]))
    /\ \A o \in NodeIds : lastGrad[o] # None => lastGrad[o] = Some(Accumulated(o))
    /\ \A o1, o2 \in NodeIds :
          ( /\ created[o1].value = created[o2].value
            /\ contribs[o1] = contribs[o2]
            /\ lastGrad[o1] # None
            /\ lastGrad[o2] # None ) => lastGrad[o1] = lastGrad[o2]

\* grad() has returned after two different contributions were accumulated
C1_Witness ==
    /\ ev.op = "grad"
    /\ Cardinality(BagToSet(contribs[origin[ev.arg]])) >= 2
    /\ ev.val = Some(<<3, 3, 3>>)

\* C2: grad() before any update_grad returns the zero made from the node's
\* value, and a grad() that follows a grad() with no update_grad in between
\* returns what that one returned.
C2_GradIdempotent ==
    [][ ev'.op = "grad" =>
          LET o == origin[ev'.arg] IN
          /\ BagToSet(contribs[o]) = {} => ev'.val = Some(zeros(created[o].value))
          /\ lastGrad[o] # None => ev'.val = lastGrad[o] ]_vars

\* grad() has returned the zero on a node no update_grad has touched
C2_Witness ==
    /\ ev.op = "grad"
    /\ BagToSet(contribs[origin[ev.arg]]) = {}
    /\ ev.val = Some(<<0, 0, 0>>)
    /\ lastGrad[origin[ev.arg]] = ev.val

\* C3: two handles cloned from the same node_init! node read the same
\* gradient, the sum of the contributions made through all of them.
C3_SharedHandles ==
    /\ \A a, b \in HandleIds :
          origin[a] = origin[b] =>
             /\ RootNode_grad(cells[handles[a]].node).ret
                   = RootNode_grad(cells[handles[b]].node).ret
             /\ RootNode_grad(cells[handles[a]].node).ret = Accumulated(origin[a])
    /\ ev.op = "grad" =>
          ev.val = Some(RootNode_grad(cells[handles[ev.arg]].node).ret)

\* update_grad went through one handle, grad() through another handle of the node
C3_Witness ==
    /\ ev.op = "grad"
    /\ lastUpdate[origin[ev.arg]] # 0
    /\ lastUpdate[origin[ev.arg]] # ev.arg
    /\ ev.val = Some(Accumulated(origin[ev.arg]))
    /\ ev.val # Some(<<0, 0, 0>>)

\* C5: borrow_mut on a node that is still borrowed panics at once and leaves
\* the node (gradient, value, id) as it was.
C5_OverlappingBorrowMutPanics ==
    [][ (ev'.op = "borrow_mut" /\ cells[handles[ev'.arg]].borrow # 0) =>
          /\ panicked'
          /\ ev'.val = Some("BorrowMutError")
          /\ cells' = cells
          /\ guards' = guards ]_vars

\* a borrow_mut was tried on a borrowed node, and the process has panicked
C5_Witness ==
    /\ panicked
    /\ ev.op = "borrow_mut"
    /\ ev.val = Some("BorrowMutError")
    /\ cells[handles[ev.arg]].borrow # 0

\* C6 as claimed: id, value and grad leave the stored gradient as it is.
C6_OnlyUpdateGradChangesStoredGrad ==
    [][ ev'.op \in {"id", "value", "grad"} =>
          \A c \in 1..Len(cells) : cells'[c].node.grad = cells[c].node.grad ]_vars

\* C6 amended: only update_grad changes the gradient a node has accumulated:
\* no other step changes what grad() reads or a gradient that is present, id
\* and value leave the stored gradient as it is, and grad only turns an absent
\* gradient into the present zero.
C6_OnlyUpdateGradChangesGradient ==
    [][ ev'.op # "update_grad" =>
          \A c \in 1..Len(cells) :
             /\ GradRead(cells'[c].node) = GradRead(cells[c].node)
             /\ cells[c].node.grad # None => cells'[c].node.grad = cells[c].node.grad
             /\ ev'.op # "grad" => cells'[c].node.grad = cells[c].node.grad ]_vars

\* grad() has read a gradient that update_grad had made present
C6_Witness ==
    /\ ev.op = "grad"
    /\ lastUpdate[origin[ev.arg]] # 0
    /\ cells[handles[ev.arg]].node.grad = ev.val

\* C7: value() returns the value the node was built with and changes nothing
\* of the node: not the gradient (absent or present), the value or the id.
C7_ValueIsPureRead ==
    [][ ev'.op = "value" =>
          /\ ev'.val = Some(created[origin[ev'.arg]].value)
          /\ cells' = cells
          /\ UNCHANGED nodeVars ]_vars

\* value() was read on a node whose gradient update_grad has made present
C7_Witness ==
    /\ ev.op = "value"
    /\ ev.val = Some(<<1, 2, 3>>)
    /\ cells[handles[ev.arg]].node.grad # None
    /\ lastUpdate[origin[ev.arg]] # 0

\* C14: a node starts with no gradient (None); a grad() or update_grad() call
\* leaves it present (Some); a gradient that is present is never absent again,
\* whatever is called; and no call changes a node's value.
C14_GradLifecycle ==
    [][ /\ \A c \in DOMAIN cells' \ DOMAIN cells : cells'[c].node.grad = None
        /\ \A c \in DOMAIN cells :
              /\ cells[c].node.grad # None => cells'[c].node.grad # None
              /\ cells'[c].node.value = cells[c].node.value
        /\ ev'.op \in {"grad", "update_grad"} =>
              cells'[handles'[ev'.arg]].node.grad # None ]_vars

\* value() was called on a node whose gradient a grad() call, and no
\* update_grad(), had made present
C14_Witness ==
    /\ ev.op = "value"
    /\ cells[handles[ev.arg]].node.grad # None
    /\ contribs[origin[ev.arg]] = EmptyBag
    /\ cells[handles[ev.arg]].node.value = created[origin[ev.arg]].value

\* C10: the nodes' ids differ from one another, and id() returns the id the
\* node was created with.
C10_UniqueStableIds ==
    /\ \A i, j \in NodeIds : i # j => created[i].id # created[j].id
    /\ ev.op = "id" => ev.val = Some(created[origin[ev.arg]].id)

(***************************************************************************)
(* Properties of Data, checked under SpecData.                             *)
(***************************************************************************)
\* C4: every Data that a construction path has built holds as many elements
\* as its shape counts: value.len() == shape.num_elements().
C4_DataLenIsNumElements ==
    data # None =>
       LET n == Shape_num_elements(data[1].shape, overflowChecks) IN
       n.kind = "ok" => Len(data[1].value) = n.val

\* C11: converting a literal array of length A gives a rank-1 Data whose shape
\* is [A] and whose buffer holds the array's elements in order.
C11_FromArrayBuildsData ==
    ev.op = "Data::from" =>
       /\ ev.val.kind = "ok"
       /\ ev.val.val.shape = Shape_new(<<Len(ev.arg)>>)
       /\ ev.val.val.value = ev.arg

\* C12: Data::random(shape) returns, for every shape, a Data with the given
\* shape and a buffer of shape.num_elements() elements; for a shape with a
\* zero extent the buffer is empty and the call does not fail.
C12_RandomLenIsNumElements ==
    ev.op = "Data::random" =>
       LET n == Shape_num_elements(ev.arg, overflowChecks) IN
       /\ ev.val.kind = "ok"
       /\ ev.val.val.shape = ev.arg
       /\ n.kind = "ok"
       /\ Len(ev.val.val.value) = n.val
       /\ (\E i \in DOMAIN ev.arg.dims : ev.arg.dims[i] = 0) => ev.val.val.value = << >>

(***************************************************************************)
(* Properties of Shape, checked under SpecShape.                           *)
(***************************************************************************)
RECURSIVE ProductOf(_)
\* the product of the numbers of a sequence
ProductOf(seq) == IF seq = << >> THEN 1 ELSE Head(seq) * ProductOf(Tail(seq))

\* the lengths of the ranges the last index call was given
RangeLengths == [i \in 1..Len(indexed[1].indexes) |-> Range_count(indexed[1].indexes[i])]

\* the extents of the axes the last index call did not slice
TrailingExtents == SubSeq(shape.dims, Len(indexed[1].indexes) + 1, Len(shape.dims))

\* C8: num_elements() of the Shape index returned for D2 <= D1 ranges is the
\* product of the ranges' lengths times the product of the extents of the
\* axes D2..D1-1.
C8_IndexedNumElements ==
    (ev.op = "num_elements" /\ ev.arg = "indexed") =>
       /\ ev.val.kind = "ok"
       /\ ev.val.val = ProductOf(RangeLengths) * ProductOf(TrailingExtents)

\* C13: num_elements() returns the product of all the extents of the Shape it
\* is called on, not a wrapped value: 0 whenever an extent is 0, and the call
\* leaves the Shape as it was.
C13_NumElementsIsProduct ==
    [][ ev'.op = "num_elements" =>
          LET s == IF ev'.arg = "self" THEN shape ELSE indexed[1].shape IN
          /\ ev'.val.kind = "ok"
          /\ ev'.val.val = ProductOf(s.dims)
          /\ (\E i \in DOMAIN s.dims : s.dims[i] = 0) => ev'.val.val = 0
          /\ shape' = shape
          /\ indexed' = indexed ]_vars

\* C9: index with more ranges than the Shape has axes panics and returns no
\* Shape.
C9_OverRankedIndexFails ==
    [][ (ev'.op = "index" /\ Len(ev'.arg) > Len(shape.dims)) =>
          /\ ev'.val.kind = "panic"
          /\ ev'.val.val = "Cant index that"
          /\ panicked'
          /\ indexed' = indexed ]_vars

\* index was called with more ranges than the Shape has axes, and panicked
C9_Witness ==
    /\ ev.op = "index"
    /\ Len(ev.arg) > Len(shape.dims)
    /\ Len(shape.dims) > 0
    /\ ev.val.kind = "panic"
    /\ panicked

\* the numbers a range start..end runs over
RangeElements(r) == r.start..(r.end - 1)

\* C15: index with D2 <= D1 ranges leaves the Shape it is called on as it was
\* and returns a Shape of the same rank D1, whose axis i < D2 has as many
\* elements as ranges[i] and whose axis i >= D2 has the original extent.
C15_IndexReturnsNewShape ==
    [][ (ev'.op = "index" /\ Len(ev'.arg) <= Len(shape.dims)) =>
          /\ shape' = shape
          /\ ev'.val.kind = "ok"
          /\ Len(ev'.val.val.dims) = Len(shape.dims)
          /\ \A i \in 1..Len(shape.dims) :
                ev'.val.val.dims[i] = IF i <= Len(ev'.arg)
                                      THEN Cardinality(RangeElements(ev'.arg[i]))
                                      ELSE shape.dims[i] ]_vars

\* index sliced the first axis of a Shape of rank 2 and kept the second, which
\* is not empty
C15_Witness ==
    /\ ev.op = "index"
    /\ ev.val.kind = "ok"
    /\ Len(ev.arg) = 1
    /\ Len(shape.dims) = 2
    /\ shape.dims[2] > 0
    /\ ev.val.val.dims[1] # shape.dims[1]
    /\ ev.val.val.dims[2] = shape.dims[2]

\* C16: index compares no range with the extents: with D2 <= D1 ranges it
\* succeeds whatever the ranges are, axis i < D2 gets end - start, also when
\* end is past the extent of axis i, and 0 when start >= end.
C16_IndexIgnoresExtents ==
    [][ (ev'.op = "index" /\ Len(ev'.arg) <= Len(shape.dims)) =>
          /\ ev'.val.kind = "ok"
          /\ ~panicked'
          /\ \A i \in 1..Len(ev'.arg) :
                LET r == ev'.arg[i] IN
                /\ r.start >= r.end => ev'.val.val.dims[i] = 0
                /\ r.start < r.end => ev'.val.val.dims[i] = r.end - r.start ]_vars

\* index was given a range that ends past the extent of its axis, and returned
\* a Shape with more elements than the Shape it was called on
C16_Witness ==
    /\ ev.op = "index"
    /\ ev.val.kind = "ok"
    /\ \E i \in 1..Len(ev.arg) :
          /\ ev.arg[i].end > shape.dims[i]
          /\ ev.val.val.dims[i] > shape.dims[i]
    /\ ProductOf(ev.val.val.dims) > ProductOf(shape.dims)
    /\ ProductOf(shape.dims) > 0

====
